---- MODULE Spec2Model ----
(***************************************************************************)
(* Model of scripts/update-agent-frontmatter.py: the batch rewrite of the  *)
(* frontmatter of agent markdown files.  Texts are sequences of one-       *)
(* character strings, so that the regular expression, the line splitting,  *)
(* the stripping and the re-serialisation are computed character by        *)
(* character as the Python code computes them.                             *)
(***************************************************************************)
EXTENDS Integers, Sequences, FiniteSets, TLC

VARIABLES
    FIXED_MODEL_AGENTS,          \* module global: path -> config record
    DYNAMIC_MODEL_AGENTS_TOOLS,  \* module global: path -> tools text
    files,                       \* the disk: path -> content
    input,                       \* content of every file when the current run of main() began
    outcome,                     \* what the current run printed for each file
    pc,                          \* "walk" while main() is in its loop, "done" after the summary
    idx,                         \* position of main() in the sorted walk
    updated, skipped, errors,    \* the counters of main()
    runs                         \* number of runs of main() started so far

vars == <<FIXED_MODEL_AGENTS, DYNAMIC_MODEL_AGENTS_TOOLS, files, input, outcome,
          pc, idx, updated, skipped, errors, runs>>

(***************************************************************************)
(* Bounds                                                                  *)
(***************************************************************************)
MaxLines == 2    \* header lines of a generated document
MaxRuns == 2     \* runs of main() over the same directory

(***************************************************************************)
(* Characters and literal texts                                            *)
(***************************************************************************)
NL == <<"\n">>
MARKER == <<"-", "-", "-">>
COLON == ":"
DQ == "\""
SQ == "'"

k_name == <<"n", "a", "m", "e">>
k_description == <<"d", "e", "s", "c", "r", "i", "p", "t", "i", "o", "n">>
k_model == <<"m", "o", "d", "e", "l">>
k_tools == <<"t", "o", "o", "l", "s">>
k_memory == <<"m", "e", "m", "o", "r", "y">>

sonnet == <<"s", "o", "n", "n", "e", "t">>
project == <<"p", "r", "o", "j", "e", "c", "t">>
ReadGlobGrep == <<"R", "e", "a", "d", ",", " ", "G", "l", "o", "b", ",", " ",
                  "G", "r", "e", "p">>
ReadGlobGrepBash == ReadGlobGrep \o <<",", " ", "B", "a", "s", "h">>

\* str.strip() without argument strips these
Whitespace == {" ", "\t", "\n", "\r", "\f"}

(***************************************************************************)
(* Python string and dict primitives                                       *)
(***************************************************************************)
RECURSIVE lstrip(_, _)
lstrip(s, chars) ==
    IF s = <<>> THEN s
    ELSE IF Head(s) \in chars THEN lstrip(Tail(s), chars) ELSE s

RECURSIVE rstrip(_, _)
rstrip(s, chars) ==
    IF s = <<>> THEN s
    ELSE IF s[Len(s)] \in chars THEN rstrip(SubSeq(s, 1, Len(s) - 1), chars) ELSE s

strip(s, chars) == rstrip(lstrip(s, chars), chars)

\* index of the first occurrence of character c in s, 0 when absent
find(s, c) ==
    IF \E i \in 1..Len(s) : s[i] = c
    THEN CHOOSE i \in 1..Len(s) : s[i] = c /\ \A j \in 1..(i - 1) : s[j] # c
    ELSE 0

RECURSIVE split(_, _)
split(s, c) ==
    LET i == find(s, c)
    IN  IF i = 0 THEN <<s>>
        ELSE <<SubSeq(s, 1, i - 1)>> \o split(SubSeq(s, i + 1, Len(s)), c)

RECURSIVE join(_, _)
join(parts, sep) ==
    IF parts = <<>> THEN <<>>
    ELSE IF Len(parts) = 1 THEN parts[1]
    ELSE parts[1] \o sep \o join(Tail(parts), sep)

\* line.partition(':')
partition(line, c) ==
    LET i == find(line, c)
    IN  IF i = 0 THEN [before |-> line, found |-> FALSE, after |-> <<>>]
        ELSE [before |-> SubSeq(line, 1, i - 1), found |-> TRUE,
              after |-> SubSeq(line, i + 1, Len(line))]

startswith_at(s, p, i) ==
    /\ i + Len(p) - 1 <= Len(s)
    /\ SubSeq(s, i, i + Len(p) - 1) = p

\* a dict is the sequence of its <<key, value>> items in insertion order
dict_has(d, k) == \E i \in 1..Len(d) : d[i][1] = k

dict_get(d, k, default) ==
    IF dict_has(d, k) THEN d[CHOOSE i \in 1..Len(d) : d[i][1] = k][2] ELSE default

dict_set(d, k, v) ==
    IF dict_has(d, k)
    THEN LET i == CHOOSE i \in 1..Len(d) : d[i][1] = k
         IN  SubSeq(d, 1, i - 1) \o << <<k, v>> >> \o SubSeq(d, i + 1, Len(d))
    ELSE Append(d, <<k, v>>)

(***************************************************************************)
(* parse_frontmatter                                                       *)
(***************************************************************************)
\* re.match(r'^---\n(.*?)\n---\n', content, re.DOTALL): the lazy group ends
\* at the first "\n---\n" that begins after the opening "---\n".
re_match(content) ==
    LET open == MARKER \o NL
        close == NL \o MARKER \o NL
        at == {i \in (Len(open) + 1)..Len(content) : startswith_at(content, close, i)}
    IN  IF startswith_at(content, open, 1) /\ at # {}
        THEN LET i == CHOOSE i \in at : \A j \in at : i <= j
             IN  [matched |-> TRUE,
                  group1 |-> SubSeq(content, Len(open) + 1, i - 1),
                  end |-> i + Len(close) - 1]
        ELSE [matched |-> FALSE, group1 |-> <<>>, end |-> 0]

\* value.strip().strip('"').strip("'")
strip_value(value) == strip(strip(strip(value, Whitespace), {DQ}), {SQ})

RECURSIVE parse_lines(_, _)
parse_lines(lines, fm) ==
    IF lines = <<>> THEN fm
    ELSE LET kv == partition(Head(lines), COLON)
         IN  parse_lines(Tail(lines),
                 IF kv.found
                 THEN dict_set(fm, strip(kv.before, Whitespace), strip_value(kv.after))
                 ELSE fm)

\* returns (None, content) as [is_none |-> TRUE, fm |-> <<>>, rest |-> content]
parse_frontmatter(content) ==
    LET m == re_match(content)
    IN  IF ~m.matched
        THEN [is_none |-> TRUE, fm |-> <<>>, rest |-> content]
        ELSE [is_none |-> FALSE,
              fm |-> parse_lines(split(strip(m.group1, Whitespace), "\n"), <<>>),
              rest |-> SubSeq(content, m.end + 1, Len(content))]

(***************************************************************************)
(* build_frontmatter                                                       *)
(***************************************************************************)
order == <<k_name, k_description, k_model, k_tools, k_memory>>

in_order(k) == \E i \in 1..Len(order) : order[i] = k

format_line(key, val) ==
    IF key = k_description
    THEN key \o <<":", " ">> \o <<DQ>> \o val \o <<DQ>>
    ELSE key \o <<":", " ">> \o val

RECURSIVE ordered_lines(_, _)
ordered_lines(keys, fields) ==
    IF keys = <<>> THEN <<>>
    ELSE (IF dict_has(fields, Head(keys))
          THEN <<format_line(Head(keys), dict_get(fields, Head(keys), <<>>))>>
          ELSE <<>>) \o ordered_lines(Tail(keys), fields)

RECURSIVE remaining_lines(_)
remaining_lines(items) ==
    IF items = <<>> THEN <<>>
    ELSE (IF ~in_order(Head(items)[1])
          THEN <<Head(items)[1] \o <<":", " ">> \o Head(items)[2]>>
          ELSE <<>>) \o remaining_lines(Tail(items))

build_frontmatter(fields) ==
    join(<<MARKER>> \o ordered_lines(order, fields) \o remaining_lines(fields)
         \o <<MARKER>>, NL) \o NL

(***************************************************************************)
(* update_agent_file                                                       *)
(***************************************************************************)
\* lines 258-260: name and description pass through, "" when absent
base_fm(fm) ==
    << <<k_name, dict_get(fm, k_name, <<>>)>>,
       <<k_description, dict_get(fm, k_description, <<>>)>> >>

\* a dynamic branch that forgets to drop the model field
new_fm_dynamic_keeps_model(fm, tools) ==
    IF dict_has(fm, k_model)
    THEN dict_set(dict_set(base_fm(fm), k_model, dict_get(fm, k_model, sonnet)),
                  k_tools, tools)
    ELSE dict_set(base_fm(fm), k_tools, tools)

\* lines 258-260, 271-275: the header of a dynamic-model agent
new_fm_dynamic(fm, tools) == dict_set(base_fm(fm), k_tools, tools)

\* a fixed branch that always writes the default model
new_fm_fixed_default_only(fm, config) ==
    LET f1 == dict_set(base_fm(fm), k_model, sonnet)
        f2 == dict_set(f1, k_tools, config.tools)
    IN  IF "memory" \in DOMAIN config THEN dict_set(f2, k_memory, config.memory) ELSE f2

\* a fixed branch that lets the file's own tools and memory fields stand
new_fm_fixed_keeps_fields(fm, config) ==
    LET f1 == dict_set(base_fm(fm), k_model, dict_get(fm, k_model, sonnet))
        f2 == dict_set(f1, k_tools, dict_get(fm, k_tools, config.tools))
    IN  IF "memory" \in DOMAIN config THEN dict_set(f2, k_memory, config.memory)
        ELSE IF dict_has(fm, k_memory)
             THEN dict_set(f2, k_memory, dict_get(fm, k_memory, <<>>))
             ELSE f2

\* lines 258-269: the header of a fixed-model agent
new_fm_fixed(fm, config) ==
    LET f1 == dict_set(base_fm(fm), k_model, dict_get(fm, k_model, sonnet))
        f2 == dict_set(f1, k_tools, config.tools)
    IN  IF "memory" \in DOMAIN config THEN dict_set(f2, k_memory, config.memory) ELSE f2

\* an update that writes the rebuilt header before it finds the file uncategorized
update_agent_file_writes_uncategorized(content, rel_path) ==
    LET p == parse_frontmatter(content)
    IN  IF p.is_none
        THEN [ret |-> FALSE, printed |-> "NoHeader", written |-> FALSE,
              new_content |-> content]
        ELSE IF rel_path \in DOMAIN FIXED_MODEL_AGENTS
        THEN [ret |-> TRUE, printed |-> "Updated", written |-> TRUE,
              new_content |->
                  build_frontmatter(new_fm_fixed(p.fm, FIXED_MODEL_AGENTS[rel_path]))
                  \o p.rest]
        ELSE IF rel_path \in DOMAIN DYNAMIC_MODEL_AGENTS_TOOLS
        THEN [ret |-> TRUE, printed |-> "Updated", written |-> TRUE,
              new_content |->
                  build_frontmatter(
                      new_fm_dynamic(p.fm, DYNAMIC_MODEL_AGENTS_TOOLS[rel_path]))
                  \o p.rest]
        ELSE [ret |-> FALSE, printed |-> "Uncategorized", written |-> TRUE,
              new_content |-> build_frontmatter(base_fm(p.fm)) \o p.rest]

\* an update that looks the path up in the tables before it parses the file
update_agent_file_classifies_first(content, rel_path) ==
    LET p == parse_frontmatter(content)
    IN  IF /\ rel_path \notin DOMAIN FIXED_MODEL_AGENTS
           /\ rel_path \notin DOMAIN DYNAMIC_MODEL_AGENTS_TOOLS
        THEN [ret |-> FALSE, printed |-> "Uncategorized", written |-> FALSE,
              new_content |-> content]
        ELSE IF p.is_none
        THEN [ret |-> FALSE, printed |-> "NoHeader", written |-> FALSE,
              new_content |-> content]
        ELSE IF rel_path \in DOMAIN FIXED_MODEL_AGENTS
        THEN [ret |-> TRUE, printed |-> "Updated", written |-> TRUE,
              new_content |->
                  build_frontmatter(new_fm_fixed(p.fm, FIXED_MODEL_AGENTS[rel_path]))
                  \o p.rest]
        ELSE [ret |-> TRUE, printed |-> "Updated", written |-> TRUE,
              new_content |->
                  build_frontmatter(
                      new_fm_dynamic(p.fm, DYNAMIC_MODEL_AGENTS_TOOLS[rel_path]))
                  \o p.rest]

\* The result of one call on a file holding `content`: the value returned,
\* the line printed (SKIP (no frontmatter) as "NoHeader", WARN (uncategorized)
\* as "Uncategorized", OK as "Updated"), whether the file was opened for
\* writing and what was written.
update_agent_file(content, rel_path) ==
    LET p == parse_frontmatter(content)
    IN  IF p.is_none
        THEN [ret |-> FALSE, printed |-> "NoHeader", written |-> FALSE,
              new_content |-> content]
        ELSE IF rel_path \in DOMAIN FIXED_MODEL_AGENTS
        THEN [ret |-> TRUE, printed |-> "Updated", written |-> TRUE,
              new_content |->
                  build_frontmatter(new_fm_fixed(p.fm, FIXED_MODEL_AGENTS[rel_path]))
                  \o p.rest]
        ELSE IF rel_path \in DOMAIN DYNAMIC_MODEL_AGENTS_TOOLS
        THEN [ret |-> TRUE, printed |-> "Updated", written |-> TRUE,
              new_content |->
                  build_frontmatter(
                      new_fm_dynamic(p.fm, DYNAMIC_MODEL_AGENTS_TOOLS[rel_path]))
                  \o p.rest]
        ELSE [ret |-> FALSE, printed |-> "Uncategorized", written |-> FALSE,
              new_content |-> content]

(***************************************************************************)
(* The directory walked by main()                                          *)
(***************************************************************************)
Path(dir, stem, ext) == [dir |-> dir, stem |-> stem, ext |-> ext]

P_readme == Path("", "README", ".md")
P_reviewer == Path("backend", "api-design-reviewer", ".md")
P_json == Path("backend", "schema", ".json")
P_scratch == Path("misc", "scratch", ".md")
P_enforcer == Path("orchestration", "quality-gate-enforcer", ".md")
P_verifier == Path("quality", "runtime-verifier", ".md")
P_template == Path("templates", "base-agent", ".md")

\* sorted(os.walk(AGENTS_DIR)) with sorted(files): by directory, then by name
Walk == <<P_readme, P_reviewer, P_json, P_scratch, P_enforcer, P_verifier, P_template>>

Paths == {Walk[i] : i \in 1..Len(Walk)}

\* the entries of the two tables for the files of this directory
FixedTable ==
    (P_reviewer :> [tools |-> ReadGlobGrep]) @@
    (P_enforcer :> [tools |-> ReadGlobGrepBash, memory |-> project])

DynamicTable == (P_verifier :> ReadGlobGrepBash)

(***************************************************************************)
(* Documents found on disk                                                 *)
(***************************************************************************)
L_name == k_name \o <<":", " ", "\"", " ", "x", "\"">>                    \* name: " x"
L_description == k_description \o <<":", " ", "\"", "d", "\"">>           \* description: "d"
L_quoted == k_description \o <<":", " ", "\"", "a", " ", "'", "b", "'", "\"">>  \* description: "a 'b'"
L_model == k_model \o <<" ", ":", " ", "o", "p", "u", "s">>               \* model : opus
L_memory == k_memory \o <<":", " ", "\"", "u", "s", "e", "r">>            \* memory: "user
L_tools == k_tools \o <<":", " ", "B", "a", "s", "h">>                    \* tools: Bash
L_rule == MARKER                                                          \* ---

HeaderLines == {L_name, L_description, L_quoted, L_model, L_memory, L_tools, L_rule}

LineSeqs == UNION {[1..n -> HeaderLines] : n \in 0..MaxLines}

Openings == {MARKER \o NL, <<>>}
Closings == {NL \o MARKER \o NL, NL \o MARKER, <<>>}
Bodies == {<<>>, <<"B", "\n">>, NL \o MARKER \o NL \o <<"B">>}

Texts == {o \o join(ls, NL) \o c \o b :
            o \in Openings, ls \in LineSeqs, c \in Closings, b \in Bodies}

(***************************************************************************)
(* main()                                                                  *)
(***************************************************************************)
endswith_md(p) == p.ext = ".md"
is_readme(p) == p.stem = "README" /\ p.ext = ".md"
startswith_templates(p) == p.dir = "templates"

InitRun(t) ==
    /\ files = [p \in Paths |-> IF endswith_md(p) THEN t ELSE <<>>]
    /\ input = files
    /\ outcome = [p \in Paths |-> "pending"]
    /\ pc = "walk"
    /\ idx = 1
    /\ updated = 0
    /\ skipped = 0
    /\ errors = 0
    /\ runs = 1

Init ==
    /\ FIXED_MODEL_AGENTS = FixedTable
    /\ DYNAMIC_MODEL_AGENTS_TOOLS = DynamicTable
    /\ \E t \in Texts : InitRun(t)

\* Any authored pair of tables: the dynamic table may also list paths of the
\* fixed table.
TablePairs ==
    {[fixed |-> FixedTable,
      dynamic |-> [p \in DOMAIN DynamicTable \cup S |->
                      IF p \in DOMAIN DynamicTable THEN DynamicTable[p]
                      ELSE ReadGlobGrepBash]] : S \in SUBSET DOMAIN FixedTable}

InitTables ==
    /\ \E tp \in TablePairs :
          /\ FIXED_MODEL_AGENTS = tp.fixed
          /\ DYNAMIC_MODEL_AGENTS_TOOLS = tp.dynamic
    /\ \E t \in Texts : InitRun(t)

\* line 306: not an .md file, or README.md: continue
SkipFiltered ==
    /\ pc = "walk" /\ idx <= Len(Walk)
    /\ LET p == Walk[idx]
       IN  /\ ~endswith_md(p) \/ is_readme(p)
           /\ outcome' = [outcome EXCEPT ![p] = "Filtered"]
    /\ idx' = idx + 1
    /\ UNCHANGED <<FIXED_MODEL_AGENTS, DYNAMIC_MODEL_AGENTS_TOOLS, files, input,
                   pc, updated, skipped, errors, runs>>

\* lines 312-315: a template is skipped without being read
SkipTemplate ==
    /\ pc = "walk" /\ idx <= Len(Walk)
    /\ LET p == Walk[idx]
       IN  /\ endswith_md(p) /\ ~is_readme(p)
           /\ startswith_templates(p)
           /\ outcome' = [outcome EXCEPT ![p] = "Template"]
    /\ idx' = idx + 1
    /\ skipped' = skipped + 1
    /\ UNCHANGED <<FIXED_MODEL_AGENTS, DYNAMIC_MODEL_AGENTS_TOOLS, files, input,
                   pc, updated, errors, runs>>

\* lines 317-320: update_agent_file on the file, then count its result
ProcessAgent ==
    /\ pc = "walk" /\ idx <= Len(Walk)
    /\ LET p == Walk[idx]
           r == update_agent_file(files[p], p)
       IN  /\ endswith_md(p) /\ ~is_readme(p)
           /\ ~startswith_templates(p)
           /\ files' = IF r.written THEN [files EXCEPT ![p] = r.new_content] ELSE files
           /\ outcome' = [outcome EXCEPT ![p] = r.printed]
           /\ updated' = IF r.ret THEN updated + 1 ELSE updated
           /\ skipped' = IF r.ret THEN skipped ELSE skipped + 1
    /\ idx' = idx + 1
    /\ UNCHANGED <<FIXED_MODEL_AGENTS, DYNAMIC_MODEL_AGENTS_TOOLS, input, pc, errors, runs>>

\* lines 322-328: the walk is over, the summary is printed
Summary ==
    /\ pc = "walk" /\ idx > Len(Walk)
    /\ pc' = "done"
    /\ UNCHANGED <<FIXED_MODEL_AGENTS, DYNAMIC_MODEL_AGENTS_TOOLS, files, input, outcome,
                   idx, updated, skipped, errors, runs>>

\* the script is run again over the directory it has left behind
RunAgain ==
    /\ pc = "done" /\ runs < MaxRuns
    /\ pc' = "walk"
    /\ idx' = 1
    /\ updated' = 0
    /\ skipped' = 0
    /\ errors' = 0
    /\ runs' = runs + 1
    /\ input' = files
    /\ outcome' = [p \in Paths |-> "pending"]
    /\ UNCHANGED <<FIXED_MODEL_AGENTS, DYNAMIC_MODEL_AGENTS_TOOLS, files>>

Next == SkipFiltered \/ SkipTemplate \/ ProcessAgent \/ Summary \/ RunAgain

Spec == Init /\ [][Next]_vars

\* the same program over any authored pair of tables
SpecTables == InitTables /\ [][Next]_vars

(***************************************************************************)
(* A document as a reader sees it: its lines, the marker lines, the        *)
(* header lines between them and the body after the closing marker line.   *)
(***************************************************************************)
TextLines(text) == split(text, "\n")

\* the first line is the marker
HasOpeningLine(text) == TextLines(text)[1] = MARKER

\* the lines after the first that are the marker and end with a newline
ClosingLines(text) ==
    LET ls == TextLines(text)
    IN  {j \in 2..(Len(ls) - 1) : ls[j] = MARKER}

WellFormedHeader(text) == HasOpeningLine(text) /\ ClosingLines(text) # {}

ClosingLine(text) ==
    LET cs == ClosingLines(text)
    IN  CHOOSE j \in cs : \A k \in cs : j <= k

\* everything after the newline of the closing marker line
DocBody(text) ==
    LET ls == TextLines(text)
    IN  join(SubSeq(ls, ClosingLine(text) + 1, Len(ls)), NL)

\* the lines between the opening and the closing marker line
DocHeaderLines(text) ==
    LET ls == TextLines(text)
    IN  SubSeq(ls, 2, ClosingLine(text) - 1)

\* the <<key, text after "key: ">> pairs of the header lines that have a ':'
DocFields(text) ==
    LET hs == DocHeaderLines(text)
    IN  {<<strip(partition(hs[j], COLON).before, Whitespace),
           Tail(partition(hs[j], COLON).after)>> :
            j \in {i \in 1..Len(hs) : partition(hs[i], COLON).found}}

DocValues(text, key) == {kv[2] : kv \in {f \in DocFields(text) : f[1] = key}}

\* update_agent_file was called on the file in the current run
Processed(p) == outcome[p] \in {"NoHeader", "Uncategorized", "Updated"}

\* line 302: the paths of the two tables
all_expected == DOMAIN FIXED_MODEL_AGENTS \cup DOMAIN DYNAMIC_MODEL_AGENTS_TOOLS

(***************************************************************************)
(* Claims                                                                  *)
(***************************************************************************)

\* C1: a file that a second run of the script rewrites is written with the
\* very text the first run left in it.
C1_Idempotent ==
    \A p \in Paths : (runs >= 2 /\ outcome[p] = "Updated") => files[p] = input[p]

\* C2: whenever a file with a well-formed header is rewritten, the text
\* written is a header block followed by exactly what followed the closing
\* marker line of the text read: the body is byte-identical.
C2_BodyPreserved ==
    \A p \in Paths :
        (outcome[p] = "Updated" /\ WellFormedHeader(input[p]))
            => /\ WellFormedHeader(files[p])
               /\ DocBody(files[p]) = DocBody(input[p])

\* C3: a file's text differs from the text read only when the file's outcome
\* is Updated, and then it begins with a complete header block: name,
\* description and tools lines between two marker lines.
C3_AllOrNothing ==
    \A p \in Paths :
        /\ outcome[p] # "Updated" => files[p] = input[p]
        /\ outcome[p] = "Updated" =>
              /\ WellFormedHeader(files[p])
              /\ LET fs == DocFields(files[p])
                     hs == DocHeaderLines(files[p])
                 IN  /\ \A k \in {k_name, k_description, k_tools} :
                            Cardinality({f \in fs : f[1] = k}) = 1
                     /\ \A j \in 1..Len(hs) : partition(hs[j], COLON).found

C3_Witness ==
    /\ outcome[P_scratch] = "Uncategorized"
    /\ outcome[P_reviewer] = "Updated"
    /\ files[P_reviewer] # input[P_reviewer]
    /\ files[P_scratch] = input[P_scratch]

\* C4: the header written for a dynamic-model agent has no model key,
\* whatever the header read held.
C4_ModelRemoved ==
    \A p \in DOMAIN DYNAMIC_MODEL_AGENTS_TOOLS :
        outcome[p] = "Updated" =>
            /\ DocValues(files[p], k_model) = {}
            /\ ~dict_has(parse_frontmatter(files[p]).fm, k_model)

C4_Witness ==
    \E p \in DOMAIN DYNAMIC_MODEL_AGENTS_TOOLS :
        /\ outcome[p] = "Updated"
        /\ dict_has(parse_frontmatter(input[p]).fm, k_model)

\* C5: the header written for a fixed-model agent has one model line; its
\* value is the model value parsed from the header read, or sonnet when the
\* header read had no model field.
C5_ModelKeptOrDefault ==
    \A p \in DOMAIN FIXED_MODEL_AGENTS :
        outcome[p] = "Updated" =>
            LET fm == parse_frontmatter(input[p]).fm
            IN  DocValues(files[p], k_model) =
                    {IF dict_has(fm, k_model) THEN dict_get(fm, k_model, <<>>) ELSE sonnet}

C5_Witness ==
    \E p \in DOMAIN FIXED_MODEL_AGENTS :
        /\ outcome[p] = "Updated"
        /\ dict_has(parse_frontmatter(input[p]).fm, k_model)
        /\ DocValues(files[p], k_model) = {<<"o", "p", "u", "s">>}

\* C6: the tools line written is the table's tools text, and a memory line is
\* written exactly for a fixed-model agent whose table entry has a memory
\* scope, with the table's value, whatever tools and memory fields were read.
C6_PolicyAuthoritative ==
    \A p \in all_expected :
        outcome[p] = "Updated" =>
            /\ DocValues(files[p], k_tools) =
                   {IF p \in DOMAIN FIXED_MODEL_AGENTS
                    THEN FIXED_MODEL_AGENTS[p].tools
                    ELSE DYNAMIC_MODEL_AGENTS_TOOLS[p]}
            /\ DocValues(files[p], k_memory) =
                   IF /\ p \in DOMAIN FIXED_MODEL_AGENTS
                      /\ "memory" \in DOMAIN FIXED_MODEL_AGENTS[p]
                   THEN {FIXED_MODEL_AGENTS[p].memory}
                   ELSE {}

C6_Witness ==
    \E p \in DOMAIN FIXED_MODEL_AGENTS :
        /\ "memory" \notin DOMAIN FIXED_MODEL_AGENTS[p]
        /\ outcome[p] = "Updated"
        /\ dict_has(parse_frontmatter(input[p]).fm, k_memory)
        /\ dict_has(parse_frontmatter(input[p]).fm, k_tools)
        /\ dict_get(parse_frontmatter(input[p]).fm, k_tools, <<>>) # FIXED_MODEL_AGENTS[p].tools
        /\ DocValues(files[p], k_memory) = {}

\* C7 as stated: every processed file whose path is in neither table gets the
\* outcome Uncategorized and keeps its text, with or without a header.
C7_AlwaysUncategorized ==
    \A p \in Paths \ all_expected :
        Processed(p) => (outcome[p] = "Uncategorized" /\ files[p] = input[p])

\* C7 amended: a processed file whose path is in neither table keeps its text;
\* its outcome is Uncategorized when its text parses with a header and
\* NoHeader when it does not.
C7_UncategorizedAfterParse ==
    \A p \in Paths \ all_expected :
        Processed(p) =>
            /\ files[p] = input[p]
            /\ outcome[p] = IF parse_frontmatter(input[p]).is_none
                            THEN "NoHeader" ELSE "Uncategorized"

C7_Witness ==
    \E p \in Paths \ all_expected :
        /\ outcome[p] = "Uncategorized"
        /\ ~parse_frontmatter(input[p]).is_none
        /\ files[p] = input[p]

\* the first line is the marker and no later line is the marker
UnterminatedHeader(text) ==
    /\ HasOpeningLine(text)
    /\ ~\E j \in 2..Len(TextLines(text)) : TextLines(text)[j] = MARKER

\* C8: a processed file whose first line is the opening marker and that has
\* no closing marker line ends in the failure MalformedHeader, which is not
\* the NoHeader skip, and is not written.
C8_MalformedHeaderFails ==
    \A p \in Paths :
        (Processed(p) /\ UnterminatedHeader(input[p]))
            => (outcome[p] = "MalformedHeader" /\ files[p] = input[p])

StripOneQuoteLayer(v) ==
    IF Len(v) >= 2 /\ v[1] = v[Len(v)] /\ v[1] \in {DQ, SQ}
    THEN SubSeq(v, 2, Len(v) - 1)
    ELSE v

\* C10: for every header line with a ':' (the last one of its key), the value
\* parsed for the key is the text after the first ':' trimmed of whitespace
\* and with exactly one layer of matching quotes removed.
C10_OneQuoteLayerStripped ==
    \A p \in Paths :
        (Processed(p) /\ ~parse_frontmatter(input[p]).is_none) =>
            LET ls == split(strip(re_match(input[p]).group1, Whitespace), "\n")
                key(i) == strip(partition(ls[i], COLON).before, Whitespace)
            IN  \A i \in 1..Len(ls) :
                    (/\ partition(ls[i], COLON).found
                     /\ \A j \in (i + 1)..Len(ls) :
                            partition(ls[j], COLON).found => key(j) # key(i))
                    => dict_get(parse_frontmatter(input[p]).fm, key(i), <<>>) =
                           StripOneQuoteLayer(strip(partition(ls[i], COLON).after,
                                                    Whitespace))
====
